---- MODULE Spec2Model ----
(***************************************************************************)
(* Model of the awskms key manager plugin                                  *)
(* (pkg/server/plugin/keymanager/awskms/awskms.go).                        *)
(*                                                                         *)
(* Go strings are sequences of one-character strings, so that              *)
(* strings.SplitAfter and fmt.Sprintf are computed, not assumed.  A Go     *)
(* pointer or slice that may be nil is a sequence of length at most one:   *)
(* None is nil, Some(x) is a non-nil value x.                              *)
(***************************************************************************)
EXTENDS Integers, Sequences, FiniteSets, TLC

VARIABLES
    entries,      \* p.entries: spire key id -> keyEntry
    keyPrefix,    \* p.keyPrefix
    kmsClient,    \* p.kmsClient # nil
    crashed,      \* the process died on a nil kmsClient dereference
    w,            \* the call holding p.mu.Lock (GenerateKey or Configure), or idle
    signing,      \* SignData calls holding p.mu.RLock, waiting for kms Sign
    detached,     \* old keys whose deletion goroutine outlived its GenerateKey
    kmsKeys,      \* remote: key id -> key metadata and public key
    kmsAliases,   \* remote: the alias listing, in listing order
    scheduled,    \* remote: keys submitted to ScheduleKeyDeletion
    created,      \* remote: number of keys CreateKey has made
    nConfigure,   \* number of Configure calls that took the lock
    step,         \* the last transition: handler, remote calls made, result
    probe         \* input and output of the pure-function specifications

vars == <<entries, keyPrefix, kmsClient, crashed, w, signing, detached,
          kmsKeys, kmsAliases, scheduled, created, nConfigure, step, probe>>

\* ------------------------------------------------------------------ bounds

MaxCreate == 2
MaxConfigure == 2
MaxSigning == 1
PageSize == 2
MaxStrLen == 2

\* ------------------------------------------------------------- Go values

None == <<>>
Some(x) == <<x>>
IsNil(p) == p = <<>>
Deref(p) == p[1]

ErrNil == "nil"

\* ------------------------------------------------------------- constants

aliasPrefix == <<"a", "l", "i", "a", "s", "/">>

defaultKeyPrefix ==
    <<"S", "P", "I", "R", "E", "_", "S", "E", "R", "V", "E", "R", "_", "K", "E", "Y", "/">>

KeyType_UNSPECIFIED_KEY_TYPE == "UNSPECIFIED_KEY_TYPE"

KeyTypes ==
    {"UNSPECIFIED_KEY_TYPE", "EC_P256", "EC_P384", "RSA_1024", "RSA_2048", "RSA_4096",
     "KEY_TYPE_99"}

HashAlgorithm_UNSPECIFIED_HASH_ALGORITHM == "UNSPECIFIED_HASH_ALGORITHM"

HashAlgorithms ==
    {"UNSPECIFIED_HASH_ALGORITHM", "SHA1", "SHA224", "SHA256", "SHA384", "SHA512"}

KeySpecs ==
    {"RSA_2048", "RSA_3072", "RSA_4096", "ECC_NIST_P256", "ECC_NIST_P384",
     "ECC_NIST_P521", "ECC_SECG_P256K1", "SYMMETRIC_DEFAULT"}

\* ------------------------------------------------------------ Alias codec

\* strings.Index: the 0-based place of the first sep in s, or -1.
Index(s, sep) ==
    LET hits == {i \in 0..(Len(s) - Len(sep)) : SubSeq(s, i + 1, i + Len(sep)) = sep}
    IN IF hits = {} THEN -1 ELSE CHOOSE i \in hits : \A j \in hits : i <= j

\* strings.SplitAfter(s, sep): s cut after each (leftmost, non-overlapping) sep.
RECURSIVE SplitAfter(_, _)
SplitAfter(s, sep) ==
    IF sep = <<>>
    THEN [i \in 1..Len(s) |-> <<s[i]>>]
    ELSE LET m == Index(s, sep)
         IN IF m < 0
            THEN <<s>>
            ELSE <<SubSeq(s, 1, m + Len(sep))>>
                 \o SplitAfter(SubSeq(s, m + Len(sep) + 1, Len(s)), sep)

spireKeyIDFromAlias(prefix, alias) ==
    LET tokens == SplitAfter(alias, prefix)
    IN IF Len(tokens) # 2
       THEN [id |-> <<>>, err |-> "alias does not contain the prefix"]
       ELSE [id |-> tokens[2], err |-> ErrNil]

aliasFromSpireKeyID(prefix, spireKeyID) == aliasPrefix \o prefix \o spireKeyID

descriptionFromSpireKeyID(prefix, spireKeyID) == prefix \o spireKeyID

\* ------------------------------------------------------- Algorithm mapper

keyTypeFromKeySpec(keySpec) ==
    IF keySpec = "RSA_2048" THEN [keyType |-> "RSA_2048", err |-> ErrNil]
    ELSE IF keySpec = "RSA_4096" THEN [keyType |-> "RSA_4096", err |-> ErrNil]
    ELSE IF keySpec = "ECC_NIST_P256" THEN [keyType |-> "EC_P256", err |-> ErrNil]
    ELSE IF keySpec = "ECC_NIST_P384" THEN [keyType |-> "EC_P384", err |-> ErrNil]
    ELSE [keyType |-> KeyType_UNSPECIFIED_KEY_TYPE, err |-> "unsupported key spec"]

keySpecFromKeyType(keyType) ==
    IF keyType = "RSA_1024"
    THEN [keySpec |-> "", err |-> "unsupported key type: KeyType_RSA_1024"]
    ELSE IF keyType = "RSA_2048" THEN [keySpec |-> "RSA_2048", err |-> ErrNil]
    ELSE IF keyType = "RSA_4096" THEN [keySpec |-> "RSA_4096", err |-> ErrNil]
    ELSE IF keyType = "EC_P256" THEN [keySpec |-> "ECC_NIST_P256", err |-> ErrNil]
    ELSE IF keyType = "EC_P384" THEN [keySpec |-> "ECC_NIST_P384", err |-> ErrNil]
    ELSE [keySpec |-> "", err |-> "unknown key type"]

\* signingAlgorithmForKMS taking every RSA request as PKCS1 v1.5.
signingAlgorithmForKMS_IgnoresPss(keyType, signerOpts) ==
    LET hashAlgo == IF signerOpts.kind = "PssOptions"
                    THEN Deref(signerOpts.pss).hash ELSE signerOpts.hash
        isRSA == keyType \in {"RSA_2048", "RSA_4096"}
    IN IF hashAlgo = HashAlgorithm_UNSPECIFIED_HASH_ALGORITHM
       THEN [algo |-> "", err |-> "hash algorithm is required"]
       ELSE IF keyType = "EC_P256" /\ hashAlgo = "SHA256"
       THEN [algo |-> "ECDSA_SHA_256", err |-> ErrNil]
       ELSE IF keyType = "EC_P384" /\ hashAlgo = "SHA384"
       THEN [algo |-> "ECDSA_SHA_384", err |-> ErrNil]
       ELSE IF isRSA /\ hashAlgo = "SHA256"
       THEN [algo |-> "RSASSA_PKCS1_V1_5_SHA_256", err |-> ErrNil]
       ELSE IF isRSA /\ hashAlgo = "SHA384"
       THEN [algo |-> "RSASSA_PKCS1_V1_5_SHA_384", err |-> ErrNil]
       ELSE IF isRSA /\ hashAlgo = "SHA512"
       THEN [algo |-> "RSASSA_PKCS1_V1_5_SHA_512", err |-> ErrNil]
       ELSE [algo |-> "", err |-> "unsupported combination of keytype and hashing algorithm"]

\* signerOpts is the request's oneof: [kind |-> "HashAlgorithm", hash],
\* [kind |-> "PssOptions", pss |-> None or Some([hash])], or another type.
signingAlgorithmForKMS(keyType, signerOpts) ==
    IF signerOpts.kind = "PssOptions" /\ IsNil(signerOpts.pss)
    THEN [algo |-> "", err |-> "PSS options are required"]
    ELSE IF signerOpts.kind \notin {"HashAlgorithm", "PssOptions"}
    THEN [algo |-> "", err |-> "unsupported signer opts type"]
    ELSE
    LET isPSS == signerOpts.kind = "PssOptions"
        hashAlgo == IF isPSS THEN Deref(signerOpts.pss).hash ELSE signerOpts.hash
        isRSA == keyType = "RSA_2048" \/ keyType = "RSA_4096"
    IN IF hashAlgo = HashAlgorithm_UNSPECIFIED_HASH_ALGORITHM
       THEN [algo |-> "", err |-> "hash algorithm is required"]
       ELSE IF keyType = "EC_P256" /\ hashAlgo = "SHA256"
       THEN [algo |-> "ECDSA_SHA_256", err |-> ErrNil]
       ELSE IF keyType = "EC_P384" /\ hashAlgo = "SHA384"
       THEN [algo |-> "ECDSA_SHA_384", err |-> ErrNil]
       ELSE IF isRSA /\ ~isPSS /\ hashAlgo = "SHA256"
       THEN [algo |-> "RSASSA_PKCS1_V1_5_SHA_256", err |-> ErrNil]
       ELSE IF isRSA /\ ~isPSS /\ hashAlgo = "SHA384"
       THEN [algo |-> "RSASSA_PKCS1_V1_5_SHA_384", err |-> ErrNil]
       ELSE IF isRSA /\ ~isPSS /\ hashAlgo = "SHA512"
       THEN [algo |-> "RSASSA_PKCS1_V1_5_SHA_512", err |-> ErrNil]
       ELSE IF isRSA /\ isPSS /\ hashAlgo = "SHA256"
       THEN [algo |-> "RSASSA_PSS_SHA_256", err |-> ErrNil]
       ELSE IF isRSA /\ isPSS /\ hashAlgo = "SHA384"
       THEN [algo |-> "RSASSA_PSS_SHA_384", err |-> ErrNil]
       ELSE IF isRSA /\ isPSS /\ hashAlgo = "SHA512"
       THEN [algo |-> "RSASSA_PSS_SHA_512", err |-> ErrNil]
       ELSE [algo |-> "", err |-> "unsupported combination of keytype and hashing algorithm"]

\* ------------------------------------------------------------ Key cache

\* setEntry without its check of PublicKey.PkixData.
setEntryErr_NoPkixCheck(spireKeyID, entry) ==
    IF spireKeyID = <<>> THEN "spireKeyID is required"
    ELSE IF entry.KMSKeyID = <<>> THEN "KMSKeyID is required"
    ELSE IF entry.Alias = <<>> THEN "Alias is required"
    ELSE IF IsNil(entry.PublicKey) THEN "PublicKey is required"
    ELSE IF Deref(entry.PublicKey).Id = <<>> THEN "PublicKey.Id is required"
    ELSE IF Deref(entry.PublicKey).Type = KeyType_UNSPECIFIED_KEY_TYPE
    THEN "PublicKey.Type is required"
    ELSE ErrNil

\* setEntry without its check of PublicKey.Id.
setEntryErr_NoPublicKeyIdCheck(spireKeyID, entry) ==
    IF spireKeyID = <<>> THEN "spireKeyID is required"
    ELSE IF entry.KMSKeyID = <<>> THEN "KMSKeyID is required"
    ELSE IF entry.Alias = <<>> THEN "Alias is required"
    ELSE IF IsNil(entry.PublicKey) THEN "PublicKey is required"
    ELSE IF Deref(entry.PublicKey).Type = KeyType_UNSPECIFIED_KEY_TYPE
    THEN "PublicKey.Type is required"
    ELSE IF IsNil(Deref(entry.PublicKey).PkixData)
            \/ Len(Deref(Deref(entry.PublicKey).PkixData)) = 0
    THEN "PublicKey.PkixData is required"
    ELSE ErrNil

\* The first check of setEntry that rejects, or nil.
setEntryErr(spireKeyID, entry) ==
    IF spireKeyID = <<>> THEN "spireKeyID is required"
    ELSE IF entry.KMSKeyID = <<>> THEN "KMSKeyID is required"
    ELSE IF entry.Alias = <<>> THEN "Alias is required"
    ELSE IF IsNil(entry.PublicKey) THEN "PublicKey is required"
    ELSE IF Deref(entry.PublicKey).Id = <<>> THEN "PublicKey.Id is required"
    ELSE IF Deref(entry.PublicKey).Type = KeyType_UNSPECIFIED_KEY_TYPE
    THEN "PublicKey.Type is required"
    ELSE IF IsNil(Deref(entry.PublicKey).PkixData)
            \/ Len(Deref(Deref(entry.PublicKey).PkixData)) = 0
    THEN "PublicKey.PkixData is required"
    ELSE ErrNil

\* setEntry on the map m: the error and the map afterwards.
setEntry(m, spireKeyID, entry) ==
    LET err == setEntryErr(spireKeyID, entry)
    IN IF err # ErrNil
       THEN [err |-> err, entries |-> m]
       ELSE [err |-> ErrNil,
             entries |-> [k \in DOMAIN m \cup {spireKeyID} |->
                            IF k = spireKeyID THEN entry ELSE m[k]]]

\* p.entry: the value and whether the key is present.
HasEntry(m, spireKeyID) == spireKeyID \in DOMAIN m

\* --------------------------------------------------- Remote key gateway

\* One remote call as the handlers issue it.
Call(op, alias, key, days, marker) ==
    [op |-> op, alias |-> alias, key |-> key, days |-> days, marker |-> marker]

\* The place of the alias named name in the listing, or 0.
AliasIndex(aliases, name) ==
    LET hits == {i \in 1..Len(aliases) : aliases[i].AliasName = Some(name)}
    IN IF hits = {} THEN 0 ELSE CHOOSE i \in hits : \A j \in hits : i <= j

\* The key a KeyId parameter (a key id or an alias name) denotes, or None.
ResolveKey(keys, aliases, keyId) ==
    IF keyId \in DOMAIN keys THEN Some(keyId)
    ELSE LET i == AliasIndex(aliases, keyId)
         IN IF i = 0 \/ IsNil(aliases[i].TargetKeyId) THEN None
            ELSE IF Deref(aliases[i].TargetKeyId) \in DOMAIN keys
            THEN aliases[i].TargetKeyId
            ELSE None

\* kms DescribeKey: fails when the call fails or the key is not found.
kmsDescribeKey(keys, aliases, keyId, ok) ==
    LET k == ResolveKey(keys, aliases, keyId)
    IN IF ~ok \/ IsNil(k)
       THEN [ok |-> FALSE, Enabled |-> FALSE, CustomerMasterKeySpec |-> ""]
       ELSE [ok |-> TRUE, Enabled |-> keys[Deref(k)].Enabled,
             CustomerMasterKeySpec |-> keys[Deref(k)].CustomerMasterKeySpec]

\* kms GetPublicKey: the key's id and its public key bytes.
kmsGetPublicKey(keys, aliases, keyId, ok) ==
    LET k == ResolveKey(keys, aliases, keyId)
    IN IF ~ok \/ IsNil(k)
       THEN [ok |-> FALSE, KeyId |-> <<>>, PublicKey |-> None]
       ELSE [ok |-> TRUE, KeyId |-> Deref(k), PublicKey |-> keys[Deref(k)].PublicKey]

\* The id kms gives the n-th key it creates.
NewKeyId(n) == <<"n", <<"1", "2", "3", "4", "5", "6", "7", "8", "9">>[n]>>

\* kms CreateKey: a fresh enabled key of the requested spec.
kmsCreateKey(keys, n, keySpec, pub) ==
    [k \in DOMAIN keys \cup {NewKeyId(n)} |->
        IF k = NewKeyId(n)
        THEN [Enabled |-> TRUE, CustomerMasterKeySpec |-> keySpec, PublicKey |-> pub]
        ELSE keys[k]]

\* kms CreateAlias: fails when the call fails or the name is taken.
kmsCreateAlias(aliases, name, target, ok) ==
    IF ~ok \/ AliasIndex(aliases, name) # 0
    THEN [ok |-> FALSE, aliases |-> aliases]
    ELSE [ok |-> TRUE,
          aliases |-> Append(aliases, [AliasName |-> Some(name),
                                       TargetKeyId |-> Some(target)])]

\* kms UpdateAlias: fails when the call fails or the alias does not exist.
kmsUpdateAlias(aliases, name, target, ok) ==
    LET i == AliasIndex(aliases, name)
    IN IF ~ok \/ i = 0
       THEN [ok |-> FALSE, aliases |-> aliases]
       ELSE [ok |-> TRUE,
             aliases |-> [aliases EXCEPT ![i].TargetKeyId = Some(target)]]

\* kms ListAliases: the page at the marker and the marker of the next page.
kmsListAliases(aliases, marker) ==
    LET first == IF IsNil(marker) THEN 1 ELSE Deref(marker)
        last == IF first + PageSize - 1 < Len(aliases)
                THEN first + PageSize - 1 ELSE Len(aliases)
    IN [Aliases |-> SubSeq(aliases, first, last),
        NextMarker |-> IF last < Len(aliases) THEN Some(last + 1) ELSE None]

\* ------------------------------------------------------------ sync.RWMutex

IdleW ==
    [pc |-> "idle", id |-> <<>>, new |-> None, old |-> None, err |-> ErrNil,
     task |-> "none", marker |-> None, page |-> <<>>, next |-> None,
     markers |-> <<>>, fromEmpty |-> FALSE, cancelled |-> FALSE]

\* A lock that does not wait for the readers.
CanLock_IgnoresReaders(writer, readers) == writer.pc = "idle"

\* p.mu.Lock() returns: no other writer and no reader holds the lock.
CanLock(writer, readers) == writer.pc = "idle" /\ readers = {}

\* p.mu.RLock() returns: no writer holds the lock.
CanRLock(writer) == writer.pc = "idle"

\* ------------------------------------------------------------- the ghost

Step(act, done, err, calls) ==
    [act |-> act, done |-> done, err |-> err, calls |-> calls,
     id |-> <<>>, new |-> None, old |-> None, got |-> None,
     fault |-> FALSE, fromEmpty |-> FALSE, markers |-> <<>>]

\* ------------------------------------------------- Key lifecycle orchestrator

\* createKey with the key type checked only after CreateKey has been called.
createKey_ChecksTypeLate(spireKeyID, keyType, r) ==
    LET spec == keySpecFromKeyType(keyType)
        newId == NewKeyId(created + 1)
        keys1 == kmsCreateKey(kmsKeys, created + 1, spec.keySpec, r.PublicKey)
        pub == kmsGetPublicKey(keys1, kmsAliases, newId, r.GetPublicKey)
        c1 == Call("CreateKey", descriptionFromSpireKeyID(keyPrefix, spireKeyID),
                   <<>>, 0, None)
        c2 == Call("GetPublicKey", <<>>, newId, 0, None)
        none == [res |-> None, err |-> ErrNil, calls |-> <<>>, fault |-> FALSE,
                 keys |-> kmsKeys, created |-> created]
    IN IF spec.err # ErrNil
       THEN [none EXCEPT !.err = spec.err, !.calls = <<c1>>, !.keys = keys1,
                         !.created = created + 1]
       ELSE IF ~r.CreateKey
       THEN [none EXCEPT !.err = "failed to create key", !.calls = <<c1>>,
                         !.fault = TRUE]
       ELSE IF ~pub.ok
       THEN [none EXCEPT !.err = "failed to get public key", !.calls = <<c1, c2>>,
                         !.fault = TRUE, !.keys = keys1, !.created = created + 1]
       ELSE [res |-> Some([KMSKeyID |-> pub.KeyId,
                           Alias |-> aliasFromSpireKeyID(keyPrefix, spireKeyID),
                           PublicKey |-> Some([Id |-> spireKeyID, Type |-> keyType,
                                               PkixData |-> pub.PublicKey])]),
             err |-> ErrNil, calls |-> <<c1, c2>>, fault |-> FALSE,
             keys |-> keys1, created |-> created + 1]

\* createKey: CreateKey, then GetPublicKey of the new key.  r gives what the
\* remote answers: whether each call succeeds and the new key's public key.
createKey(spireKeyID, keyType, r) ==
    LET spec == keySpecFromKeyType(keyType)
        newId == NewKeyId(created + 1)
        keys1 == kmsCreateKey(kmsKeys, created + 1, spec.keySpec, r.PublicKey)
        pub == kmsGetPublicKey(keys1, kmsAliases, newId, r.GetPublicKey)
        c1 == Call("CreateKey", descriptionFromSpireKeyID(keyPrefix, spireKeyID),
                   <<>>, 0, None)
        c2 == Call("GetPublicKey", <<>>, newId, 0, None)
        none == [res |-> None, err |-> ErrNil, calls |-> <<>>, fault |-> FALSE,
                 keys |-> kmsKeys, created |-> created]
    IN IF spec.err # ErrNil THEN [none EXCEPT !.err = spec.err]
       ELSE IF ~r.CreateKey
       THEN [none EXCEPT !.err = "failed to create key", !.calls = <<c1>>,
                         !.fault = TRUE]
       ELSE IF ~pub.ok
       THEN [none EXCEPT !.err = "failed to get public key", !.calls = <<c1, c2>>,
                         !.fault = TRUE, !.keys = keys1, !.created = created + 1]
       ELSE [res |-> Some([KMSKeyID |-> pub.KeyId,
                           Alias |-> aliasFromSpireKeyID(keyPrefix, spireKeyID),
                           PublicKey |-> Some([Id |-> spireKeyID, Type |-> keyType,
                                               PkixData |-> pub.PublicKey])]),
             err |-> ErrNil, calls |-> <<c1, c2>>, fault |-> FALSE,
             keys |-> keys1, created |-> created + 1]

\* GenerateKey with the new entry put in the map before the alias call.
GenerateKeyRun_AdmitsBeforeAlias(req, r) ==
    LET ck == createKey(req.KeyId, req.KeyType, r)
        newEntry == Deref(ck.res)
        hasOldEntry == HasEntry(entries, req.KeyId)
        oldEntry == IF hasOldEntry THEN Some(entries[req.KeyId]) ELSE None
        ca == kmsCreateAlias(kmsAliases, newEntry.Alias, newEntry.KMSKeyID, r.Alias)
        ua == kmsUpdateAlias(kmsAliases, newEntry.Alias, newEntry.KMSKeyID, r.Alias)
        al == IF hasOldEntry THEN ua ELSE ca
        c3 == Call(IF hasOldEntry THEN "UpdateAlias" ELSE "CreateAlias",
                   newEntry.Alias, newEntry.KMSKeyID, 0, None)
        se == setEntry(entries, req.KeyId, newEntry)
        invalid == [locked |-> FALSE, done |-> TRUE, err |-> ErrNil, calls |-> <<>>,
                    fault |-> FALSE, keys |-> kmsKeys, created |-> created,
                    aliases |-> kmsAliases, entries |-> entries, w |-> IdleW,
                    new |-> None, old |-> None]
        ret == [invalid EXCEPT !.locked = TRUE, !.calls = ck.calls,
                               !.fault = ck.fault, !.keys = ck.keys,
                               !.created = ck.created, !.new = ck.res,
                               !.old = oldEntry]
    IN IF req.KeyId = <<>>
       THEN [invalid EXCEPT !.err = "key id is required"]
       ELSE IF req.KeyType = KeyType_UNSPECIFIED_KEY_TYPE
       THEN [invalid EXCEPT !.err = "key type is required"]
       ELSE IF ck.err # ErrNil
       THEN [ret EXCEPT !.err = ck.err]
       ELSE IF ~al.ok
       THEN [ret EXCEPT !.err = IF hasOldEntry THEN "failed to update alias"
                                               ELSE "failed to create alias",
                        !.calls = Append(ck.calls, c3), !.fault = TRUE,
                        !.entries = se.entries]
       ELSE [ret EXCEPT !.done = FALSE, !.calls = Append(ck.calls, c3),
                        !.aliases = al.aliases, !.entries = se.entries,
                        !.w = [IdleW EXCEPT !.pc = "gen", !.id = req.KeyId,
                                            !.new = ck.res, !.old = oldEntry,
                                            !.err = se.err,
                                            !.task = IF hasOldEntry THEN "pending"
                                                                    ELSE "none"]]

\* GenerateKey from line 136, ck being what createKey (line 135) returned.
GenerateKeyAfterCreate(req, r, ck) ==
    LET newEntry == Deref(ck.res)
        hasOldEntry == HasEntry(entries, req.KeyId)
        oldEntry == IF hasOldEntry THEN Some(entries[req.KeyId]) ELSE None
        ca == kmsCreateAlias(kmsAliases, newEntry.Alias, newEntry.KMSKeyID, r.Alias)
        ua == kmsUpdateAlias(kmsAliases, newEntry.Alias, newEntry.KMSKeyID, r.Alias)
        al == IF hasOldEntry THEN ua ELSE ca
        c3 == Call(IF hasOldEntry THEN "UpdateAlias" ELSE "CreateAlias",
                   newEntry.Alias, newEntry.KMSKeyID, 0, None)
        se == setEntry(entries, req.KeyId, newEntry)
        invalid == [locked |-> FALSE, done |-> TRUE, err |-> ErrNil, calls |-> <<>>,
                    fault |-> FALSE, keys |-> kmsKeys, created |-> created,
                    aliases |-> kmsAliases, entries |-> entries, w |-> IdleW,
                    new |-> None, old |-> None]
        ret == [invalid EXCEPT !.locked = TRUE, !.calls = ck.calls,
                               !.fault = ck.fault, !.keys = ck.keys,
                               !.created = ck.created, !.new = ck.res,
                               !.old = oldEntry]
    IN IF req.KeyId = <<>>
       THEN [invalid EXCEPT !.err = "key id is required"]
       ELSE IF req.KeyType = KeyType_UNSPECIFIED_KEY_TYPE
       THEN [invalid EXCEPT !.err = "key type is required"]
       ELSE IF ck.err # ErrNil
       THEN [ret EXCEPT !.err = ck.err]
       ELSE IF ~al.ok
       THEN [ret EXCEPT !.err = IF hasOldEntry THEN "failed to update alias"
                                               ELSE "failed to create alias",
                        !.calls = Append(ck.calls, c3), !.fault = TRUE]
       ELSE [ret EXCEPT !.done = FALSE, !.calls = Append(ck.calls, c3),
                        !.aliases = al.aliases, !.entries = se.entries,
                        !.w = [IdleW EXCEPT !.pc = "gen", !.id = req.KeyId,
                                            !.new = ck.res, !.old = oldEntry,
                                            !.err = se.err,
                                            !.task = IF hasOldEntry THEN "pending"
                                                                    ELSE "none"]]

\* GenerateKey from its first line to line 176 (err = p.setEntry(...)), or to
\* the return that comes first.
GenerateKeyRun(req, r) ==
    GenerateKeyAfterCreate(req, r, createKey(req.KeyId, req.KeyType, r))

\* A valid request reaches p.kmsClient.CreateKey (line 303).
ReachesClient(req) ==
    /\ req.KeyId # <<>>
    /\ req.KeyType # KeyType_UNSPECIFIED_KEY_TYPE
    /\ keySpecFromKeyType(req.KeyType).err = ErrNil

\* What the remote may answer to the calls of one GenerateKey: CreateKey
\* fails, or GetPublicKey fails, or both succeed, the key has public key bytes
\* or none, and the alias call succeeds or fails.
GenerateAnswers(req) ==
    LET ok == [CreateKey |-> TRUE, GetPublicKey |-> TRUE, Alias |-> TRUE,
               PublicKey |-> Some(<<created + 1>>)]
    IN {ok} \cup
       (IF ReachesClient(req)
        THEN {[ok EXCEPT !.CreateKey = FALSE],
              [ok EXCEPT !.GetPublicKey = FALSE],
              [ok EXCEPT !.Alias = FALSE],
              [ok EXCEPT !.PublicKey = None]}
        ELSE {})

GenerateKeyRequests ==
    [KeyId : {<<>>, <<"k">>},
     KeyType : {"UNSPECIFIED_KEY_TYPE", "RSA_1024", "EC_P256"}]

\* The effect of one GenerateKey whose run to line 176 is o.
GenerateKeyStep(req, o) ==
    /\ ~crashed
    /\ (ReachesClient(req) => (kmsClient /\ created < MaxCreate))
    /\ (o.locked => CanLock(w, signing))
    /\ entries' = o.entries
    /\ kmsKeys' = o.keys
    /\ kmsAliases' = o.aliases
    /\ created' = o.created
    /\ w' = IF o.locked THEN o.w ELSE w
    /\ step' = [Step("GenerateKey", o.done, o.err, o.calls) EXCEPT
                   !.id = req.KeyId, !.new = o.new, !.old = o.old,
                   !.fault = o.fault]
    /\ UNCHANGED <<keyPrefix, kmsClient, crashed, signing, detached,
                   scheduled, nConfigure, probe>>

GenerateKey ==
    \E req \in GenerateKeyRequests : \E r \in GenerateAnswers(req) :
        GenerateKeyStep(req, GenerateKeyRun(req, r))

\* Lines 177-184: the check of err and the return.  err is the variable the
\* deletion goroutine also assigns (line 166); the handler reads it once.
GenerateKeyReturn ==
    /\ ~crashed
    /\ w.pc = "gen"
    /\ w' = IdleW
    /\ detached' = IF w.task = "pending"
                   THEN detached \cup {Deref(w.old).KMSKeyID} ELSE detached
    /\ step' = [Step("GenerateKeyReturn", TRUE, w.err, <<>>) EXCEPT
                   !.id = w.id, !.new = w.new, !.old = w.old,
                   !.got = IF w.err = ErrNil THEN Deref(w.new).PublicKey ELSE None]
    /\ UNCHANGED <<entries, keyPrefix, kmsClient, crashed, signing, kmsKeys,
                   kmsAliases, scheduled, created, nConfigure, probe>>

\* The goroutine scheduling the deletion of the key GenerateKey just created.
ScheduleKeyDeletion_OfNewKey ==
    \E ok \in BOOLEAN :
        /\ ~crashed
        /\ w.pc = "gen"
        /\ w.task = "pending"
        /\ scheduled' = IF ok THEN scheduled \cup {Deref(w.new).KMSKeyID}
                        ELSE scheduled
        /\ w' = [w EXCEPT !.task = "done",
                          !.err = IF ok THEN ErrNil ELSE "failed to schedule deletion"]
        /\ step' = [Step("ScheduleKeyDeletion", FALSE, ErrNil,
                         <<Call("ScheduleKeyDeletion", <<>>,
                                Deref(w.new).KMSKeyID, 7, None)>>) EXCEPT
                       !.fault = ~ok]
        /\ UNCHANGED <<entries, keyPrefix, kmsClient, crashed, signing, detached,
                       kmsKeys, kmsAliases, created, nConfigure, probe>>

\* The goroutine of lines 162-173 while its GenerateKey has not returned:
\* ScheduleKeyDeletion of the old key, its error assigned to the handler's err.
ScheduleKeyDeletion ==
    \E ok \in BOOLEAN :
        /\ ~crashed
        /\ w.pc = "gen"
        /\ w.task = "pending"
        /\ scheduled' = IF ok THEN scheduled \cup {Deref(w.old).KMSKeyID}
                        ELSE scheduled
        /\ w' = [w EXCEPT !.task = "done",
                          !.err = IF ok THEN ErrNil ELSE "failed to schedule deletion"]
        /\ step' = [Step("ScheduleKeyDeletion", FALSE, ErrNil,
                         <<Call("ScheduleKeyDeletion", <<>>,
                                Deref(w.old).KMSKeyID, 7, None)>>) EXCEPT
                       !.fault = ~ok]
        /\ UNCHANGED <<entries, keyPrefix, kmsClient, crashed, signing, detached,
                       kmsKeys, kmsAliases, created, nConfigure, probe>>

\* The caller's ctx of a GenerateKey that is past the alias call is cancelled
\* or times out.  Nothing after line 160 reads ctx: the goroutine makes its
\* own from context.Background() (line 164).
CancelContext ==
    /\ ~crashed
    /\ w.pc = "gen"
    /\ ~w.cancelled
    /\ w' = [w EXCEPT !.cancelled = TRUE]
    /\ step' = Step("CancelContext", FALSE, ErrNil, <<>>)
    /\ UNCHANGED <<entries, keyPrefix, kmsClient, crashed, signing, detached,
                   kmsKeys, kmsAliases, scheduled, created, nConfigure, probe>>

\* The goroutine making its call with the ctx of the handler, which is done
\* once the handler has returned: the request is never sent.
ScheduleKeyDeletionDetached_CallerContext ==
    \E k \in detached :
        /\ ~crashed
        /\ detached' = detached \ {k}
        /\ step' = [Step("ScheduleKeyDeletionCancelled", FALSE, ErrNil, <<>>)
                       EXCEPT !.fault = TRUE]
        /\ UNCHANGED <<entries, keyPrefix, kmsClient, crashed, w, signing,
                       scheduled, kmsKeys, kmsAliases, created, nConfigure, probe>>

\* The same goroutine after its GenerateKey has returned.  It reads
\* p.kmsClient without the lock: after a Configure whose newClient failed the
\* client is nil and the call panics.
ScheduleKeyDeletionDetached ==
    \E k \in detached, ok \in BOOLEAN :
        /\ ~crashed
        /\ detached' = detached \ {k}
        /\ IF kmsClient
           THEN /\ scheduled' = IF ok THEN scheduled \cup {k} ELSE scheduled
                /\ step' = [Step("ScheduleKeyDeletion", FALSE, ErrNil,
                                 <<Call("ScheduleKeyDeletion", <<>>, k, 7, None)>>)
                               EXCEPT !.fault = ~ok]
                /\ UNCHANGED crashed
           ELSE /\ crashed' = TRUE
                /\ step' = Step("panic", FALSE, ErrNil, <<>>)
                /\ UNCHANGED scheduled
        /\ UNCHANGED <<entries, keyPrefix, kmsClient, w, signing,
                       kmsKeys, kmsAliases, created, nConfigure, probe>>

\* A handler calls a method of the nil p.kmsClient (before any Configure, or
\* after a Configure whose newClient failed): the process panics.
NilClientPanic ==
    /\ ~crashed
    /\ ~kmsClient
    /\ CanLock(w, signing)
    /\ crashed' = TRUE
    /\ step' = Step("panic", FALSE, ErrNil, <<>>)
    /\ UNCHANGED <<entries, keyPrefix, kmsClient, w, signing, detached, kmsKeys,
                   kmsAliases, scheduled, created, nConfigure, probe>>

\* ------------------------------------------------------------- Configure

\* validateConfig: None is a document hcl cannot decode.
validateConfig(c) ==
    IF IsNil(c)
    THEN [config |-> None, err |-> "unable to decode configuration"]
    ELSE IF Deref(c).Region = <<>>
    THEN [config |-> None, err |-> "configuration is missing a region"]
    ELSE IF Deref(c).KeyPrefix = <<>>
    THEN [config |-> Some([Deref(c) EXCEPT !.KeyPrefix = defaultKeyPrefix]),
          err |-> ErrNil]
    ELSE [config |-> c, err |-> ErrNil]

ConfigureRequests ==
    {None} \cup {Some(c) : c \in [Region : {<<>>, <<"r">>},
                                  KeyPrefix : {<<>>, <<"p", "/">>}]}

\* Configure to the start of the paging loop (lines 92-108).
ConfigureWith(c, clientOk) ==
        LET v == validateConfig(c)
        IN /\ ~crashed
           /\ IF v.err # ErrNil
              THEN /\ step' = Step("Configure", TRUE, v.err, <<>>)
                   /\ UNCHANGED <<keyPrefix, kmsClient, w, nConfigure>>
              ELSE /\ CanLock(w, signing)
                   /\ nConfigure < MaxConfigure
                   /\ nConfigure' = nConfigure + 1
                   /\ keyPrefix' = Deref(v.config).KeyPrefix
                   /\ kmsClient' = clientOk
                   /\ w' = IF clientOk
                           THEN [IdleW EXCEPT !.pc = "list",
                                              !.fromEmpty = (DOMAIN entries = {})]
                           ELSE IdleW
                   /\ step' = Step("Configure", ~clientOk,
                                   IF clientOk THEN ErrNil
                                   ELSE "failed to create KMS client", <<>>)
           /\ UNCHANGED <<entries, crashed, signing, detached, kmsKeys,
                          kmsAliases, scheduled, created, probe>>

Configure ==
    \E c \in ConfigureRequests, clientOk \in BOOLEAN : ConfigureWith(c, clientOk)

\* The writer after one record of the page: the next record, the next page
\* (line 110, with the marker line 390 returned), or the return of line 119.
NextRecord_StopsAfterPage(wr, rest) ==
    IF rest # <<>> THEN [wr EXCEPT !.pc = "loop", !.page = rest]
    ELSE IdleW

NextRecord(wr, rest) ==
    IF rest # <<>> THEN [wr EXCEPT !.pc = "loop", !.page = rest]
    ELSE IF IsNil(wr.next) THEN IdleW
    ELSE [wr EXCEPT !.pc = "list", !.page = <<>>, !.marker = wr.next]

ConfigureStep(act, wr, err, calls, fault) ==
    [Step(act, wr.pc = "idle", err, calls) EXCEPT
        !.fault = fault, !.fromEmpty = w.fromEmpty, !.markers = w.markers]

\* fetchAliasesPage, lines 364-372: one ListAliases call.
ListAliasesPage ==
    \E ok \in BOOLEAN :
        LET resp == kmsListAliases(kmsAliases, w.marker)
            call == Call("ListAliases", <<>>, <<>>, 0, w.marker)
            listed == [w EXCEPT !.next = resp.NextMarker,
                                !.markers = Append(w.markers, w.marker)]
            wr == IF ok THEN NextRecord(listed, resp.Aliases) ELSE IdleW
        IN /\ ~crashed
           /\ w.pc = "list"
           /\ w' = wr
           /\ step' = [ConfigureStep("fetchAliasesPage", wr,
                                     IF ok THEN ErrNil ELSE "failed to fetch keys",
                                     <<call>>, ~ok) EXCEPT
                          !.markers = Append(w.markers, w.marker)]
           /\ UNCHANGED <<entries, keyPrefix, kmsClient, crashed, signing,
                          detached, kmsKeys, kmsAliases, scheduled, created,
                          nConfigure, probe>>

\* buildKeyEntry without the check of KeyMetadata.Enabled.
buildKeyEntry_KeepsDisabled(alias, awsKeyID, r) ==
    LET d == kmsDescribeKey(kmsKeys, kmsAliases, alias, r.DescribeKey)
        sk == spireKeyIDFromAlias(keyPrefix, alias)
        kt == keyTypeFromKeySpec(d.CustomerMasterKeySpec)
        g == kmsGetPublicKey(kmsKeys, kmsAliases, alias, r.GetPublicKey)
        c1 == Call("DescribeKey", alias, <<>>, 0, None)
        c2 == Call("GetPublicKey", alias, <<>>, 0, None)
        skip == [entry |-> None, err |-> ErrNil, calls |-> <<c1>>, fault |-> FALSE]
    IN IF ~d.ok
       THEN [skip EXCEPT !.err = "failed to describe key", !.fault = TRUE]
       ELSE IF sk.err # ErrNil THEN skip
       ELSE IF kt.err # ErrNil THEN skip
       ELSE IF ~g.ok
       THEN [skip EXCEPT !.err = "failed to get public key", !.fault = TRUE,
                         !.calls = <<c1, c2>>]
       ELSE [entry |-> Some([KMSKeyID |-> awsKeyID, Alias |-> alias,
                             PublicKey |-> Some([Id |-> sk.id, Type |-> kt.keyType,
                                                 PkixData |-> g.PublicKey])]),
             err |-> ErrNil, calls |-> <<c1, c2>>, fault |-> FALSE]

\* buildKeyEntry returning the error of spireKeyIDFromAlias instead of skipping.
buildKeyEntry_FailsOnAlias(alias, awsKeyID, r) ==
    LET d == kmsDescribeKey(kmsKeys, kmsAliases, alias, r.DescribeKey)
        sk == spireKeyIDFromAlias(keyPrefix, alias)
        kt == keyTypeFromKeySpec(d.CustomerMasterKeySpec)
        g == kmsGetPublicKey(kmsKeys, kmsAliases, alias, r.GetPublicKey)
        c1 == Call("DescribeKey", alias, <<>>, 0, None)
        c2 == Call("GetPublicKey", alias, <<>>, 0, None)
        skip == [entry |-> None, err |-> ErrNil, calls |-> <<c1>>, fault |-> FALSE]
    IN IF ~d.ok
       THEN [skip EXCEPT !.err = "failed to describe key", !.fault = TRUE]
       ELSE IF ~d.Enabled THEN skip
       ELSE IF sk.err # ErrNil THEN [skip EXCEPT !.err = sk.err]
       ELSE IF kt.err # ErrNil THEN skip
       ELSE IF ~g.ok
       THEN [skip EXCEPT !.err = "failed to get public key", !.fault = TRUE,
                         !.calls = <<c1, c2>>]
       ELSE [entry |-> Some([KMSKeyID |-> awsKeyID, Alias |-> alias,
                             PublicKey |-> Some([Id |-> sk.id, Type |-> kt.keyType,
                                                 PkixData |-> g.PublicKey])]),
             err |-> ErrNil, calls |-> <<c1, c2>>, fault |-> FALSE]

\* buildKeyEntry for one listed alias.  r gives whether each call succeeds.
buildKeyEntry(alias, awsKeyID, r) ==
    LET d == kmsDescribeKey(kmsKeys, kmsAliases, alias, r.DescribeKey)
        sk == spireKeyIDFromAlias(keyPrefix, alias)
        kt == keyTypeFromKeySpec(d.CustomerMasterKeySpec)
        g == kmsGetPublicKey(kmsKeys, kmsAliases, alias, r.GetPublicKey)
        c1 == Call("DescribeKey", alias, <<>>, 0, None)
        c2 == Call("GetPublicKey", alias, <<>>, 0, None)
        skip == [entry |-> None, err |-> ErrNil, calls |-> <<c1>>, fault |-> FALSE]
    IN IF ~d.ok
       THEN [skip EXCEPT !.err = "failed to describe key", !.fault = TRUE]
       ELSE IF ~d.Enabled THEN skip
       ELSE IF sk.err # ErrNil THEN skip
       ELSE IF kt.err # ErrNil THEN skip
       ELSE IF ~g.ok
       THEN [skip EXCEPT !.err = "failed to get public key", !.fault = TRUE,
                         !.calls = <<c1, c2>>]
       ELSE [entry |-> Some([KMSKeyID |-> awsKeyID, Alias |-> alias,
                             PublicKey |-> Some([Id |-> sk.id, Type |-> kt.keyType,
                                                 PkixData |-> g.PublicKey])]),
             err |-> ErrNil, calls |-> <<c1, c2>>, fault |-> FALSE]

\* The loop going on to the next record when setEntry rejects the entry.
processBuilt_IgnoresAdmission(alias, b) ==
    LET entry == Deref(b.entry)
        se == setEntry(entries, Deref(entry.PublicKey).Id, entry)
        skip == [err |-> ErrNil, calls |-> <<>>, fault |-> FALSE,
                 entries |-> entries]
    IN IF IsNil(alias.AliasName) \/ IsNil(alias.TargetKeyId) THEN skip
       ELSE IF b.err # ErrNil
       THEN [skip EXCEPT !.err = "failed to process KMS key", !.calls = b.calls,
                         !.fault = b.fault]
       ELSE IF IsNil(b.entry) THEN [skip EXCEPT !.calls = b.calls]
       ELSE [err |-> ErrNil, calls |-> b.calls, fault |-> FALSE,
             entries |-> se.entries]

\* Lines 373-388: what the loop does with b, the result of buildKeyEntry.
processBuilt(alias, b) ==
    LET entry == Deref(b.entry)
        se == setEntry(entries, Deref(entry.PublicKey).Id, entry)
        skip == [err |-> ErrNil, calls |-> <<>>, fault |-> FALSE,
                 entries |-> entries]
    IN IF IsNil(alias.AliasName) \/ IsNil(alias.TargetKeyId) THEN skip
       ELSE IF b.err # ErrNil
       THEN [skip EXCEPT !.err = "failed to process KMS key", !.calls = b.calls,
                         !.fault = b.fault]
       ELSE IF IsNil(b.entry) THEN [skip EXCEPT !.calls = b.calls]
       ELSE [err |-> se.err, calls |-> b.calls, fault |-> FALSE,
             entries |-> se.entries]

\* One iteration of the loop of fetchAliasesPage, lines 373-389.
processAlias(alias, r) ==
    processBuilt(alias, buildKeyEntry(Deref(alias.AliasName),
                                      Deref(alias.TargetKeyId), r))

\* The effect of one iteration whose outcome is o, wr being the writer after it.
ProcessAliasStep(o, wr) ==
    /\ ~crashed
    /\ w.pc = "loop"
    /\ entries' = o.entries
    /\ w' = wr
    /\ step' = ConfigureStep("processAlias", wr, o.err, o.calls, o.fault)
    /\ UNCHANGED <<keyPrefix, kmsClient, crashed, signing, detached,
                   kmsKeys, kmsAliases, scheduled, created, nConfigure,
                   probe>>

\* The writer after an iteration that ended with err.
AfterRecord(err) == IF err = ErrNil THEN NextRecord(w, Tail(w.page)) ELSE IdleW

ProcessAlias ==
    \E r \in [DescribeKey : BOOLEAN, GetPublicKey : BOOLEAN] :
        /\ w.pc = "loop"
        /\ ProcessAliasStep(processAlias(Head(w.page), r),
                            AfterRecord(processAlias(Head(w.page), r).err))

\* ------------------------------------------------------------- readers

HashOpts(h) == Some([kind |-> "HashAlgorithm", hash |-> h, pss |-> None])
PssOpts(h) ==
    Some([kind |-> "PssOptions", hash |-> HashAlgorithm_UNSPECIFIED_HASH_ALGORITHM,
          pss |-> Some([hash |-> h])])

SignDataRequests ==
    [KeyId : {<<>>, <<"k">>},
     SignerOpts : {None, HashOpts("SHA256"), HashOpts("SHA384"), PssOpts("SHA256")}]

\* SignData to the kms Sign call (lines 187-213), or to the return that comes
\* first.  A call that reaches Sign keeps p.mu.RLock until SignDataReturn.
SignData ==
    \E req \in SignDataRequests :
        LET keyEntry == entries[req.KeyId]
            sa == signingAlgorithmForKMS(Deref(keyEntry.PublicKey).Type,
                                         Deref(req.SignerOpts))
            rejected(err) ==
                /\ step' = [Step("SignData", TRUE, err, <<>>) EXCEPT !.id = req.KeyId]
                /\ UNCHANGED signing
        IN /\ ~crashed
           /\ IF req.KeyId = <<>> THEN rejected("key id is required")
              ELSE IF IsNil(req.SignerOpts) THEN rejected("signer opts is required")
              ELSE /\ CanRLock(w)
                   /\ IF ~HasEntry(entries, req.KeyId) THEN rejected("no such key")
                      ELSE IF sa.err # ErrNil THEN rejected(sa.err)
                      ELSE /\ kmsClient
                           /\ Cardinality(signing) < MaxSigning
                           /\ signing' = signing \cup
                                  {[id |-> req.KeyId, keyEntry |-> keyEntry,
                                    signingAlgo |-> sa.algo]}
                           /\ step' = [Step("SignData", FALSE, ErrNil,
                                            <<Call("Sign", keyEntry.Alias, <<>>, 0,
                                                   None)>>) EXCEPT
                                          !.id = req.KeyId, !.old = Some(keyEntry)]
           /\ UNCHANGED <<entries, keyPrefix, kmsClient, crashed, w, detached,
                          kmsKeys, kmsAliases, scheduled, created, nConfigure,
                          probe>>

\* Lines 214-218: kms Sign answers, the handler returns and releases RLock.
SignDataReturn ==
    \E s \in signing, ok \in BOOLEAN :
        /\ ~crashed
        /\ signing' = signing \ {s}
        /\ step' = [Step("SignDataReturn", TRUE,
                         IF ok THEN ErrNil ELSE "failed to sign", <<>>) EXCEPT
                       !.id = s.id, !.old = Some(s.keyEntry), !.fault = ~ok]
        /\ UNCHANGED <<entries, keyPrefix, kmsClient, crashed, w, detached,
                       kmsKeys, kmsAliases, scheduled, created, nConfigure,
                       probe>>

GetPublicKey ==
    \E id \in {<<>>, <<"k">>, <<"j">>} :
        /\ ~crashed
        /\ IF id = <<>>
           THEN step' = Step("GetPublicKey", TRUE, "key id is required", <<>>)
           ELSE /\ CanRLock(w)
                /\ step' = IF ~HasEntry(entries, id)
                           THEN [Step("GetPublicKey", TRUE, "no such key", <<>>)
                                    EXCEPT !.id = id]
                           ELSE [Step("GetPublicKey", TRUE, ErrNil, <<>>) EXCEPT
                                    !.id = id, !.old = Some(entries[id]),
                                    !.got = entries[id].PublicKey]
        /\ UNCHANGED <<entries, keyPrefix, kmsClient, crashed, w, signing,
                       detached, kmsKeys, kmsAliases, scheduled, created,
                       nConfigure, probe>>

GetPublicKeys ==
    /\ ~crashed
    /\ CanRLock(w)
    /\ step' = Step("GetPublicKeys", TRUE, ErrNil, <<>>)
    /\ UNCHANGED <<entries, keyPrefix, kmsClient, crashed, w, signing, detached,
                   kmsKeys, kmsAliases, scheduled, created, nConfigure, probe>>

\* ------------------------------------------------- the remote at the start

Str_p == <<"p", "/">>

AliasRecord(name, target) == [AliasName |-> name, TargetKeyId |-> target]

InitKeys ==
    [k \in {<<"A">>, <<"B">>, <<"C">>, <<"D">>} |->
        IF k = <<"A">>
        THEN [Enabled |-> TRUE, CustomerMasterKeySpec |-> "ECC_NIST_P256",
              PublicKey |-> Some(<<65>>)]
        ELSE IF k = <<"B">>
        THEN [Enabled |-> FALSE, CustomerMasterKeySpec |-> "ECC_NIST_P256",
              PublicKey |-> Some(<<66>>)]
        ELSE IF k = <<"C">>
        THEN [Enabled |-> TRUE, CustomerMasterKeySpec |-> "SYMMETRIC_DEFAULT",
              PublicKey |-> None]
        ELSE [Enabled |-> TRUE, CustomerMasterKeySpec |-> "RSA_2048",
              PublicKey |-> Some(<<>>)]]

\* Alias listings the remote may hold when the plugin starts.  Among them:
\* an alias under the prefix "p/", under a foreign prefix, of a disabled key,
\* of a key of unsupported spec, with the prefix twice, with no key id after
\* the prefix, of a key with no public key bytes, and records lacking the
\* alias name or the target key id.
InitAliases ==
    LET pre == aliasPrefix \o Str_p
        k == <<"k">>
        j == <<"j">>
        A == Some(<<"A">>)
    IN {<<>>,
        <<AliasRecord(Some(pre \o k), A),
          AliasRecord(Some(aliasPrefix \o <<"q", "/">> \o k), A),
          AliasRecord(Some(pre \o j), Some(<<"B">>))>>,
        <<AliasRecord(None, A),
          AliasRecord(Some(pre \o k), Some(<<"C">>)),
          AliasRecord(Some(pre \o Str_p \o k), A),
          AliasRecord(Some(pre \o j), None)>>,
        <<AliasRecord(Some(pre \o k), A),
          AliasRecord(Some(pre), A)>>,
        <<AliasRecord(Some(pre \o j), Some(<<"D">>)),
          AliasRecord(Some(pre \o k), A)>>,
        <<AliasRecord(Some(aliasPrefix \o <<"x", "/">> \o Str_p \o k), A),
          AliasRecord(Some(aliasPrefix \o defaultKeyPrefix \o k), A),
          AliasRecord(Some(pre \o j), A)>>}

NoProbe == [fn |-> "none", in |-> <<>>, out |-> <<>>, done |-> FALSE]

\* newPlugin: an empty map, no client, no prefix.
NewPlugin ==
    /\ entries = <<>>
    /\ keyPrefix = <<>>
    /\ kmsClient = FALSE
    /\ crashed = FALSE
    /\ w = IdleW
    /\ signing = {}
    /\ detached = {}
    /\ nConfigure = 0
    /\ step = Step("New", FALSE, ErrNil, <<>>)

Init ==
    /\ NewPlugin
    /\ kmsKeys = InitKeys
    /\ kmsAliases \in InitAliases
    /\ scheduled = {}
    /\ created = 0
    /\ probe = NoProbe

Next ==
    \/ Configure
    \/ ListAliasesPage
    \/ ProcessAlias
    \/ GenerateKey
    \/ GenerateKeyReturn
    \/ ScheduleKeyDeletion
    \/ ScheduleKeyDeletionDetached
    \/ CancelContext
    \/ SignData
    \/ SignDataReturn
    \/ GetPublicKey
    \/ GetPublicKeys
    \/ NilClientPanic

Spec == Init /\ [][Next]_vars

\* The Go scheduler runs every runnable goroutine: the deletion goroutine of
\* lines 162-173 makes its call, whether or not its GenerateKey has returned.
SpecLive ==
    /\ Init
    /\ [][Next]_vars
    /\ WF_vars(ScheduleKeyDeletion)
    /\ WF_vars(ScheduleKeyDeletionDetached)

\* Every remote call of Configure returns: the loop of lines 109-117 and the
\* loop of fetchAliasesPage take their next step.
SpecPaging ==
    /\ Init
    /\ [][Next]_vars
    /\ WF_vars(ListAliasesPage)
    /\ WF_vars(ProcessAlias)

\* ------------------------------------- specifications of pure functions

Alphabet == {"a", "s", "/", "k"}

\* The strings of at most n characters.
StrUpTo(n) == UNION {[1..m -> Alphabet] : m \in 0..n}

RemoteEmpty ==
    /\ kmsKeys = InitKeys
    /\ kmsAliases = <<>>
    /\ scheduled = {}
    /\ created = 0

\* A configured prefix and a key id; the alias is built and decoded again.
InitCodec ==
    /\ NewPlugin
    /\ RemoteEmpty
    /\ probe \in [fn : {"codec"}, done : {FALSE}, out : {<<>>},
                  in : [prefix : StrUpTo(MaxStrLen) \ {<<>>}, id : StrUpTo(MaxStrLen)]]

CodecRoundTrip ==
    /\ ~probe.done
    /\ keyPrefix' = probe.in.prefix
    /\ probe' = [probe EXCEPT
                    !.done = TRUE,
                    !.out = spireKeyIDFromAlias(
                                probe.in.prefix,
                                aliasFromSpireKeyID(probe.in.prefix, probe.in.id))]
    /\ UNCHANGED <<entries, kmsClient, crashed, w, signing, detached, kmsKeys,
                   kmsAliases, scheduled, created, nConfigure, step>>

SpecCodec == InitCodec /\ [][CodecRoundTrip]_vars

\* --------------------------------------------- a restart of the process

RestartKeyTypes == {"EC_P256", "RSA_2048"}

\* A prefix, a key id and a key type on a remote without keys of this plugin.
InitRestart ==
    /\ NewPlugin
    /\ RemoteEmpty
    /\ probe \in [fn : {"restart"}, done : {FALSE}, out : {<<>>},
                  in : [prefix : StrUpTo(MaxStrLen) \ {<<>>},
                        id : StrUpTo(MaxStrLen) \ {<<>>},
                        type : RestartKeyTypes]]

\* Configure with the prefix under test; the client is made.
ConfigureProbe ==
    ConfigureWith(Some([Region |-> <<"r">>, KeyPrefix |-> probe.in.prefix]), TRUE)

\* GenerateKey for the key id and type under test.
GenerateProbe ==
    /\ ~probe.done
    /\ \E r \in GenerateAnswers([KeyId |-> probe.in.id, KeyType |-> probe.in.type]) :
           GenerateKeyStep([KeyId |-> probe.in.id, KeyType |-> probe.in.type],
                           GenerateKeyRun([KeyId |-> probe.in.id,
                                           KeyType |-> probe.in.type], r))

\* The process ends while it caches an entry for the key id and a new one
\* starts (newPlugin): its map is empty, it has no client and no prefix, and
\* the goroutines of the old process are gone.  The remote keeps its state.
\* probe.out keeps the entry the old process had cached.
Restart ==
    /\ ~probe.done
    /\ w.pc = "idle"
    /\ signing = {}
    /\ HasEntry(entries, probe.in.id)
    /\ probe' = [probe EXCEPT !.done = TRUE, !.out = entries[probe.in.id]]
    /\ entries' = <<>>
    /\ keyPrefix' = <<>>
    /\ kmsClient' = FALSE
    /\ crashed' = FALSE
    /\ w' = IdleW
    /\ signing' = {}
    /\ detached' = {}
    /\ step' = Step("New", FALSE, ErrNil, <<>>)
    /\ UNCHANGED <<kmsKeys, kmsAliases, scheduled, created, nConfigure>>

NextRestart ==
    \/ ConfigureProbe
    \/ ListAliasesPage
    \/ ProcessAlias
    \/ GenerateProbe
    \/ GenerateKeyReturn
    \/ ScheduleKeyDeletion
    \/ ScheduleKeyDeletionDetached
    \/ Restart

SpecRestart == InitRestart /\ [][NextRestart]_vars

\* The candidates given to setEntry: every field present or missing.
AdmitCandidates ==
    [id : {<<>>, <<"k">>, <<"j">>},
     entry : [KMSKeyID : {<<>>, <<"A">>},
              Alias : {<<>>, aliasPrefix \o Str_p \o <<"k">>},
              PublicKey : {None} \cup
                  {Some(pk) : pk \in [Id : {<<>>, <<"k">>},
                                      Type : {"UNSPECIFIED_KEY_TYPE", "EC_P256"},
                                      PkixData : {None, Some(<<>>), Some(<<65>>)}]}]]

ValidEntry ==
    [KMSKeyID |-> <<"B">>, Alias |-> aliasPrefix \o Str_p \o <<"k">>,
     PublicKey |-> Some([Id |-> <<"k">>, Type |-> "RSA_2048",
                         PkixData |-> Some(<<66>>)])]

InitAdmit ==
    /\ entries \in {<<>>, [i \in {<<"k">>} |-> ValidEntry]}
    /\ keyPrefix = Str_p
    /\ kmsClient = TRUE
    /\ crashed = FALSE
    /\ w = IdleW
    /\ signing = {}
    /\ detached = {}
    /\ nConfigure = 1
    /\ step = Step("New", FALSE, ErrNil, <<>>)
    /\ RemoteEmpty
    /\ probe \in [fn : {"setEntry"}, done : {FALSE}, out : {<<>>},
                  in : AdmitCandidates]

Admit ==
    LET se == setEntry(entries, probe.in.id, probe.in.entry)
    IN /\ ~probe.done
       /\ entries' = se.entries
       /\ probe' = [probe EXCEPT !.done = TRUE,
                                 !.out = [err |-> se.err, before |-> entries]]
       /\ UNCHANGED <<keyPrefix, kmsClient, crashed, w, signing, detached,
                      kmsKeys, kmsAliases, scheduled, created, nConfigure, step>>

SpecAdmit == InitAdmit /\ [][Admit]_vars

\* A key type, a hash algorithm and the padding of a SignData request.
InitMapper ==
    /\ NewPlugin
    /\ RemoteEmpty
    /\ probe \in [fn : {"signingAlgorithmForKMS"}, done : {FALSE}, out : {<<>>},
                  in : [keyType : KeyTypes, hash : HashAlgorithms, isPSS : BOOLEAN]]

MapSigningAlgorithm ==
    /\ ~probe.done
    /\ probe' = [probe EXCEPT
                    !.done = TRUE,
                    !.out = signingAlgorithmForKMS(
                                probe.in.keyType,
                                Deref(IF probe.in.isPSS THEN PssOpts(probe.in.hash)
                                      ELSE HashOpts(probe.in.hash)))]
    /\ UNCHANGED <<entries, keyPrefix, kmsClient, crashed, w, signing, detached,
                   kmsKeys, kmsAliases, scheduled, created, nConfigure, step>>

SpecMapper == InitMapper /\ [][MapSigningAlgorithm]_vars

\* ------------------------------------------------------------ properties

\* A GenerateKey call returned in the last step.
GenerateReturned == step.act = "GenerateKeyReturn"

\* Configure returned from its paging loop in the last step.
ReconcileReturned == step.done /\ step.act \in {"fetchAliasesPage", "processAlias"}

\* C1: after every GenerateKey of k that returned success the cache has an
\* entry for k, its remote key id is the key this call created and differs
\* from the one of the entry it replaced, and its alias is "alias/" + prefix + k.
C1_RotationReplaces ==
    (GenerateReturned /\ step.err = ErrNil) =>
        /\ HasEntry(entries, step.id)
        /\ entries[step.id].KMSKeyID = Deref(step.new).KMSKeyID
        /\ entries[step.id].Alias = aliasFromSpireKeyID(keyPrefix, step.id)
        /\ (~IsNil(step.old) =>
                Deref(step.old).KMSKeyID # entries[step.id].KMSKeyID)

\* A required field of the candidate is missing.
MissingField(id, e) ==
    \/ id = <<>>
    \/ e.KMSKeyID = <<>>
    \/ e.Alias = <<>>
    \/ IsNil(e.PublicKey)
    \/ /\ ~IsNil(e.PublicKey)
       /\ \/ Deref(e.PublicKey).Id = <<>>
          \/ Deref(e.PublicKey).Type = "UNSPECIFIED_KEY_TYPE"
          \/ Deref(e.PublicKey).PkixData \in {None, Some(<<>>)}

\* C2: setEntry of a candidate with a missing field returns an error and
\* leaves the map as it was; a complete candidate is stored under its id and
\* no other entry changes.
C2_AdmitValidates ==
    probe.done =>
        IF MissingField(probe.in.id, probe.in.entry)
        THEN probe.out.err # ErrNil /\ entries = probe.out.before
        ELSE /\ probe.out.err = ErrNil
             /\ DOMAIN entries = DOMAIN probe.out.before \cup {probe.in.id}
             /\ entries[probe.in.id] = probe.in.entry
             /\ \A k \in DOMAIN probe.out.before \ {probe.in.id} :
                    entries[k] = probe.out.before[k]

\* A candidate for a cached id was rejected.
C2_Witness ==
    /\ probe.done
    /\ probe.out.err = "PublicKey.Id is required"
    /\ probe.in.id \in DOMAIN probe.out.before

WellFormed(k, e) ==
    /\ k # <<>>
    /\ e.KMSKeyID # <<>>
    /\ e.Alias # <<>>
    /\ ~IsNil(e.PublicKey)
    /\ Deref(e.PublicKey).Id # <<>>
    /\ Deref(e.PublicKey).Type # "UNSPECIFIED_KEY_TYPE"
    /\ Deref(e.PublicKey).PkixData \notin {None, Some(<<>>)}

\* C3: in every reachable state every entry of the cache has a non-empty id,
\* remote key id and alias, and a public key with a non-empty id, a key type
\* and non-empty pkix bytes.
C3_EntriesWellFormed == \A k \in DOMAIN entries : WellFormed(k, entries[k])

\* A GenerateKey was rejected by setEntry while the cache holds an entry that
\* an earlier GenerateKey admitted.
C3_Witness ==
    /\ GenerateReturned
    /\ step.err = "PublicKey.PkixData is required"
    /\ \E k \in DOMAIN entries : entries[k].KMSKeyID = NewKeyId(1)

\* C4: for every prefix and every key id that does not contain the prefix,
\* decoding the alias built from the id gives the id back.
C4_RoundTrip ==
    (probe.done /\ Index(probe.in.id, probe.in.prefix) < 0) =>
        probe.out = [id |-> probe.in.id, err |-> ErrNil]

SupportedKeySpecs == {"RSA_2048", "RSA_4096", "ECC_NIST_P256", "ECC_NIST_P384"}

\* What kms answers for a listed alias when the calls succeed.
Described(a) == kmsDescribeKey(kmsKeys, kmsAliases, Deref(a.AliasName), TRUE)
Decoded(a) == spireKeyIDFromAlias(keyPrefix, Deref(a.AliasName))
PublicKeyOf(a) == kmsGetPublicKey(kmsKeys, kmsAliases, Deref(a.AliasName), TRUE)

\* The listed alias is enabled, decodes under the prefix and has a supported spec.
Loads(a) ==
    /\ ~IsNil(a.AliasName)
    /\ ~IsNil(a.TargetKeyId)
    /\ Described(a).ok
    /\ Described(a).Enabled
    /\ Decoded(a).err = ErrNil
    /\ Described(a).CustomerMasterKeySpec \in SupportedKeySpecs

Listed == {kmsAliases[i] : i \in 1..Len(kmsAliases)}

\* The alias name is "alias/" + prefix + id for an id without the prefix in it.
UnderPrefix(a) ==
    LET pre == aliasPrefix \o keyPrefix
        name == Deref(a.AliasName)
    IN /\ Len(name) >= Len(pre)
       /\ SubSeq(name, 1, Len(pre)) = pre
       /\ Index(SubSeq(name, Len(pre) + 1, Len(name)), keyPrefix) < 0

\* The id of an alias under the prefix.
IdUnderPrefix(a) ==
    SubSeq(Deref(a.AliasName), Len(aliasPrefix \o keyPrefix) + 1,
           Len(Deref(a.AliasName)))

\* C5: after a successful reconcile that started from an empty cache, the
\* cache has an entry for k exactly when some listed alias is enabled, is
\* "alias/" + prefix + k and has a supported key spec; an alias under a
\* foreign prefix contributes no entry.
C5_ForeignAliasesIgnored ==
    (ReconcileReturned /\ step.err = ErrNil /\ step.fromEmpty) =>
        DOMAIN entries =
            {IdUnderPrefix(a) : a \in {b \in Listed : Loads(b) /\ UnderPrefix(b)}}

\* With the decoding as spireKeyIDFromAlias does it: after a successful
\* reconcile that started from an empty cache, the cache has an entry for k
\* exactly when some listed alias is enabled, is decoded to k and has a
\* supported key spec.
ReconcileLoadsDecoded ==
    (ReconcileReturned /\ step.err = ErrNil /\ step.fromEmpty) =>
        DOMAIN entries = {Decoded(a).id : a \in {b \in Listed : Loads(b)}}

\* Two pages: an alias under the prefix, one under a foreign prefix, and a
\* disabled key; one entry.
ReconcileLoadsDecoded_Witness ==
    /\ ReconcileReturned
    /\ step.err = ErrNil
    /\ step.fromEmpty
    /\ keyPrefix = Str_p
    /\ Len(kmsAliases) = 3
    /\ ~Described(kmsAliases[3]).Enabled
    /\ DOMAIN entries = {<<"k">>}

\* A record reconcile skips without failing.
BenignSkip(a) ==
    \/ IsNil(a.AliasName)
    \/ IsNil(a.TargetKeyId)
    \/ /\ ~IsNil(a.AliasName)
       /\ Described(a).ok
       /\ \/ ~Described(a).Enabled
          \/ Decoded(a).err # ErrNil
          \/ Described(a).CustomerMasterKeySpec \notin SupportedKeySpecs

\* A record whose entry setEntry accepts.
Admissible(a) ==
    /\ Loads(a)
    /\ Decoded(a).id # <<>>
    /\ Deref(a.TargetKeyId) # <<>>
    /\ PublicKeyOf(a).ok
    /\ PublicKeyOf(a).PublicKey \notin {None, Some(<<>>)}

\* The markers of the pages of the listing, in order.
AllMarkers ==
    LET n == IF Len(kmsAliases) = 0 THEN 1
             ELSE (Len(kmsAliases) + PageSize - 1) \div PageSize
    IN [i \in 1..n |-> IF i = 1 THEN None ELSE Some((i - 1) * PageSize + 1)]

C7_DeletionNeverDecides ==
    GenerateReturned =>
        /\ step.err = ErrNil <=> setEntryErr(step.id, Deref(step.new)) = ErrNil
        /\ step.err # "failed to schedule deletion"

\* C8: a GenerateKey in which CreateKey, GetPublicKey, CreateAlias or
\* UpdateAlias fails returns an error in that step and leaves the cache as it was.
C8_FailedGenerateKeepsCache ==
    [][(step'.act = "GenerateKey" /\ step'.fault) =>
           (step'.done /\ step'.err # ErrNil /\ entries' = entries)]_vars

\* UpdateAlias failed in a rotation; the prior entry is still cached.
C8_Witness ==
    /\ step.act = "GenerateKey"
    /\ step.fault
    /\ step.err = "failed to update alias"
    /\ HasEntry(entries, step.id)
    /\ entries[step.id] = Deref(step.old)

ValidationErrors ==
    {"key id is required", "key type is required",
     "unsupported key type: KeyType_RSA_1024", "unknown key type",
     "signer opts is required", "no such key", "PSS options are required",
     "unsupported signer opts type", "hash algorithm is required",
     "unsupported combination of keytype and hashing algorithm"}

Rejected(st) ==
    /\ st.done
    /\ st.act \in {"GenerateKey", "SignData", "GetPublicKey"}
    /\ st.err \in ValidationErrors

\* C9: a request rejected for a validation or not-found reason makes no
\* remote call and changes neither the cache nor the remote.
C9_RejectionHasNoEffect ==
    [][Rejected(step') =>
           (step'.calls = <<>>
            /\ UNCHANGED <<entries, kmsKeys, kmsAliases, scheduled, created>>)]_vars

\* SignData of an id that is not cached, after a Configure.
C9_Witness ==
    /\ Rejected(step)
    /\ step.act = "SignData"
    /\ step.err = "no such key"
    /\ kmsClient

\* C10: while a SignData holds the read lock no GenerateKey or Configure is
\* in flight and the entry it read is the entry of the cache; GetPublicKey
\* returns the public key of the cached entry with no writer in flight.
C10_NoTornReads ==
    /\ \A s \in signing :
           /\ w.pc = "idle"
           /\ HasEntry(entries, s.id)
           /\ entries[s.id] = s.keyEntry
    /\ (step.act = "GetPublicKey" /\ step.err = ErrNil) =>
           (w.pc = "idle" /\ step.got = entries[step.id].PublicKey)

\* A SignData holds the entry of a rotated key.
C10_Witness ==
    \E s \in signing :
        /\ s.keyEntry.KMSKeyID = NewKeyId(2)
        /\ NewKeyId(1) \in scheduled \cup detached

\* The keys whose deletion a goroutine has still to request.
PendingDeletions ==
    detached \cup (IF w.pc = "gen" /\ w.task = "pending"
                   THEN {Deref(w.old).KMSKeyID} ELSE {})

\* C11: a GenerateKey that reaches the alias call issues CreateAlias when the
\* id is not cached and UpdateAlias when it is, on "alias/" + prefix + id and
\* to the key it created; a deletion is pending exactly after a successful
\* UpdateAlias, and every ScheduleKeyDeletion asks, with a window of 7 days,
\* for the key of the superseded entry and never for the new key.
C11_AliasProtocol ==
    [][/\ (step'.act = "GenerateKey" /\ Len(step'.calls) = 3) =>
              /\ step'.calls[3].op = IF HasEntry(entries, step'.id)
                                     THEN "UpdateAlias" ELSE "CreateAlias"
              /\ step'.calls[3].alias = aliasFromSpireKeyID(keyPrefix, step'.id)
              /\ step'.calls[3].key = NewKeyId(created')
              /\ step'.calls[2].key = NewKeyId(created')
              /\ (w'.task = "pending") <=>
                     (HasEntry(entries, step'.id) /\ ~step'.fault)
              /\ (w'.task = "pending") => w'.old = Some(entries[step'.id])
       /\ (step'.act = "GenerateKey" /\ Len(step'.calls) < 3) =>
              PendingDeletions' = PendingDeletions
       /\ step'.act = "GenerateKeyReturn" =>
              detached' \subseteq PendingDeletions
       /\ step'.act = "ScheduleKeyDeletion" =>
              /\ Len(step'.calls) = 1
              /\ step'.calls[1].days = 7
              /\ step'.calls[1].key \in PendingDeletions
              /\ (w.pc = "gen" => step'.calls[1].key # Deref(w.new).KMSKeyID)
              /\ PendingDeletions' \subseteq PendingDeletions]_vars

\* The deletion of the key a reconcile had loaded was requested after a
\* rotation repointed its alias.
C11_Witness ==
    /\ step.act = "ScheduleKeyDeletion"
    /\ step.calls[1].key = <<"A">>
    /\ \E i \in 1..Len(kmsAliases) : kmsAliases[i].TargetKeyId = Some(NewKeyId(1))
    /\ <<"A">> \notin PendingDeletions

\* The ids a remote key can have.
RemoteKeyIds == DOMAIN InitKeys \cup {NewKeyId(n) : n \in 1..MaxCreate}

\* ScheduleKeyDeletion of key was requested in the last step.
DeletionRequested(key) ==
    /\ step.act = "ScheduleKeyDeletion"
    /\ step.calls[1].key = key

\* C12: a GenerateKey past its alias call can return whether or not the
\* deletion call has been made, and a pending deletion of the old key is
\* eventually requested unless the process has stopped, also when the caller's
\* ctx has been cancelled or GenerateKey has returned.
C12_DeletionDetached ==
    /\ []((w.pc = "gen" /\ ~crashed) => ENABLED GenerateKeyReturn)
    /\ \A key \in RemoteKeyIds :
           (key \in PendingDeletions) ~> (DeletionRequested(key) \/ crashed)

\* The deletion was requested after the caller's ctx was cancelled, while
\* GenerateKey had not returned.
C12_Witness ==
    /\ step.act = "ScheduleKeyDeletion"
    /\ w.pc = "gen"
    /\ w.cancelled
    /\ w.task = "done"
    /\ step.calls[1].key = Deref(w.old).KMSKeyID

\* The RSA signing specs by padding and hash.
RsaSigningSpecs ==
    [pss \in BOOLEAN |->
        IF pss
        THEN [SHA256 |-> "RSASSA_PSS_SHA_256", SHA384 |-> "RSASSA_PSS_SHA_384",
              SHA512 |-> "RSASSA_PSS_SHA_512"]
        ELSE [SHA256 |-> "RSASSA_PKCS1_V1_5_SHA_256",
              SHA384 |-> "RSASSA_PKCS1_V1_5_SHA_384",
              SHA512 |-> "RSASSA_PKCS1_V1_5_SHA_512"]]

\* The reference table of signing algorithms.
SigningAlgorithmTable(keyType, hash, isPSS) ==
    CASE hash = "UNSPECIFIED_HASH_ALGORITHM" ->
             [algo |-> "", err |-> "hash algorithm is required"]
      [] <<keyType, hash>> = <<"EC_P256", "SHA256">> ->
             [algo |-> "ECDSA_SHA_256", err |-> ErrNil]
      [] <<keyType, hash>> = <<"EC_P384", "SHA384">> ->
             [algo |-> "ECDSA_SHA_384", err |-> ErrNil]
      [] keyType \in {"RSA_2048", "RSA_4096"}
         /\ hash \in {"SHA256", "SHA384", "SHA512"} ->
             [algo |-> RsaSigningSpecs[isPSS][hash], err |-> ErrNil]
      [] OTHER ->
             [algo |-> "",
              err |-> "unsupported combination of keytype and hashing algorithm"]

\* C13: for every key type, hash algorithm and padding,
\* signingAlgorithmForKMS gives the signing spec of the reference table, or
\* fails as the table says.
C13_MapperMatchesTable ==
    (probe.done /\ probe.fn = "signingAlgorithmForKMS") =>
        probe.out = SigningAlgorithmTable(probe.in.keyType, probe.in.hash,
                                          probe.in.isPSS)

\* RSA-2048 with SHA256 and PSS padding was mapped to RSASSA-PSS-SHA256.
C13_Witness ==
    /\ probe.done
    /\ probe.in = [keyType |-> "RSA_2048", hash |-> "SHA256", isPSS |-> TRUE]
    /\ probe.out = [algo |-> "RSASSA_PSS_SHA_256", err |-> ErrNil]

\* C14: in every reachable state the alias of every cache entry is
\* "alias/" + prefix + id for the configured prefix and the id it is cached
\* under.
C14_AliasDerivedFromId ==
    \A k \in DOMAIN entries :
        entries[k].Alias = aliasFromSpireKeyID(keyPrefix, k)

\* The entry buildKeyEntry makes of a listed alias.
EntryOf(a) ==
    [KMSKeyID |-> Deref(a.TargetKeyId), Alias |-> Deref(a.AliasName),
     PublicKey |-> Some([Id |-> Decoded(a).id,
                         Type |-> keyTypeFromKeySpec(
                                      Described(a).CustomerMasterKeySpec).keyType,
                         PkixData |-> PublicKeyOf(a).PublicKey])]

\* C15: after every successful Configure, the first or a repeated one, every
\* cache entry is the entry of a listed alias that this reconcile admitted; no
\* entry of an earlier configuration or GenerateKey is left.
C15_ConfigureMirrorsRemote ==
    (ReconcileReturned /\ step.err = ErrNil) =>
        \A k \in DOMAIN entries :
            \E a \in Listed :
                Loads(a) /\ Decoded(a).id = k /\ entries[k] = EntryOf(a)

\* setEntry rejects the entry buildKeyEntry makes of the listed record.
AdmissionRejected(a) ==
    /\ Loads(a)
    /\ PublicKeyOf(a).ok
    /\ setEntryErr(Decoded(a).id, EntryOf(a)) # ErrNil

\* C16: a reconcile step in which ListAliases, DescribeKey or GetPublicKey
\* fails, or in which setEntry rejects the built entry, ends Configure with an
\* error in that step: the writer is idle, so no further record or page is
\* processed, and the cache is as the records before had left it.
\* GetPublicKey is called only for a record that passed the checks.
C16_ReconcileAborts ==
    [][(step'.act \in {"fetchAliasesPage", "processAlias"}) =>
           /\ step'.fault => step'.err # ErrNil
           /\ (/\ step'.act = "processAlias"
               /\ ~step'.fault
               /\ ~IsNil(Head(w.page).AliasName)
               /\ ~IsNil(Head(w.page).TargetKeyId)
               /\ AdmissionRejected(Head(w.page))) => step'.err # ErrNil
           /\ (step'.act = "processAlias" /\ Len(step'.calls) = 2) =>
                  Loads(Head(w.page))
           /\ step'.err # ErrNil =>
                  /\ step'.done
                  /\ w' = IdleW
                  /\ entries' = entries]_vars

\* The second record of a page was rejected by setEntry: Configure failed and
\* the entry of the first record is in the cache.
C16_Witness ==
    /\ step.act = "processAlias"
    /\ step.done
    /\ step.err = "spireKeyID is required"
    /\ w = IdleW
    /\ DOMAIN entries = {<<"k">>}
    /\ step.fromEmpty

\* The token the remote returns with the page requested with marker m.
TokenAfter(m) == kmsListAliases(kmsAliases, m).NextMarker

\* ms starts without a cursor and continues with the token of the page before.
Chained(ms) ==
    /\ ms # <<>>
    /\ IsNil(ms[1])
    /\ \A i \in 2..Len(ms) : ~IsNil(ms[i]) /\ ms[i] = TokenAfter(ms[i - 1])
    /\ \A i, j \in 1..Len(ms) : ms[i] = ms[j] => i = j

Reconciling == w.pc \in {"list", "loop"}

\* C17: the ListAliases calls of a reconcile start without a cursor, each
\* later one carries the token the page before returned, no page is asked
\* twice, the next call (if any) carries the token of the last page, and a
\* reconcile that returns without error has asked the last page; when every
\* remote call returns, every reconcile ends.
C17_SequentialPaging ==
    /\ [](step.act \in {"fetchAliasesPage", "processAlias"} =>
            /\ Chained(step.markers)
            /\ (step.act = "fetchAliasesPage") =>
                   step.calls[1].marker = step.markers[Len(step.markers)]
            /\ (w.pc = "list") =>
                   (~IsNil(w.marker)
                    /\ w.marker = TokenAfter(step.markers[Len(step.markers)]))
            /\ (w.pc = "loop") => w.next = TokenAfter(step.markers[Len(step.markers)])
            /\ (step.done /\ step.err = ErrNil) =>
                   IsNil(TokenAfter(step.markers[Len(step.markers)])))
    /\ Reconciling ~> ~Reconciling

\* A reconcile over two pages returned after asking both.
C17_Witness ==
    /\ ReconcileReturned
    /\ step.err = ErrNil
    /\ step.markers = <<None, Some(PageSize + 1)>>
    /\ Len(kmsAliases) > PageSize

\* The alias of the entry the old process cached still points at its key.
InventoryUnchanged ==
    \E a \in Listed :
        /\ a.AliasName = Some(probe.out.Alias)
        /\ a.TargetKeyId = Some(probe.out.KMSKeyID)
        /\ Described(a).ok /\ Described(a).Enabled

\* The reconcile of the new process returned and no remote call failed.
RestartReconciled ==
    /\ probe.fn = "restart"
    /\ probe.done
    /\ ReconcileReturned
    /\ ~step.fault

\* C18: a reconcile by a fresh process with the same prefix succeeds and
\* admits, for the key id, the entry the old process had cached after its
\* generate, when the alias still points at that key.
C18_RestartRecovers ==
    (RestartReconciled /\ InventoryUnchanged) =>
        /\ step.err = ErrNil
        /\ HasEntry(entries, probe.in.id)
        /\ entries[probe.in.id] = probe.out

\* The same, for the prefixes and ids the alias codec maps back.
RestartRecoversDecodable ==
    (/\ RestartReconciled /\ InventoryUnchanged
     /\ spireKeyIDFromAlias(probe.in.prefix,
            aliasFromSpireKeyID(probe.in.prefix, probe.in.id))
        = [id |-> probe.in.id, err |-> ErrNil]) =>
        /\ step.err = ErrNil
        /\ HasEntry(entries, probe.in.id)
        /\ entries[probe.in.id] = probe.out

\* The key the alias of entry e targets in the remote listing, or None.
AliasTarget(e) == ResolveKey(kmsKeys, kmsAliases, e.Alias)

NothingInFlight == w.pc = "idle" /\ ~crashed

\* C19: while no GenerateKey and no Configure holds the lock, every cached
\* entry names the key its alias targets remotely, and no cached key has been
\* submitted to ScheduleKeyDeletion.
C19_CacheAgreesWithRemote ==
    NothingInFlight =>
        \A k \in DOMAIN entries :
            /\ AliasTarget(entries[k]) = Some(entries[k].KMSKeyID)
            /\ entries[k].KMSKeyID \notin scheduled

\* The key ids a later GenerateKey may name.
RotationIds == {<<"k">>, <<"j">>}

AliasExists(k) == AliasIndex(kmsAliases, aliasFromSpireKeyID(keyPrefix, k)) # 0

\* C20: after a reconcile that succeeded on an empty cache, the alias of a
\* key id exists remotely exactly when the cache has an entry for the id, so
\* that GenerateKey's choice (line 143: UpdateAlias for a cached id,
\* CreateAlias otherwise) matches the remote.
C20_AliasExistsIffCached ==
    (ReconcileReturned /\ step.err = ErrNil /\ step.fromEmpty) =>
        \A k \in RotationIds : AliasExists(k) <=> HasEntry(entries, k)

====
